---- MODULE Spec2Model ----
(***************************************************************************)
(* Chronicle diary app: the dual-backend persistence shim (DiaryStorage),  *)
(* the authentication shim (Auth), and the export/import of Settings, as a *)
(* state machine.  Every DiaryStorage operation is one action: the remote  *)
(* request and, where the code has one, the local fallback.  The remote    *)
(* table is modelled from supabase-schema.sql (uuid key, CHECK on type,    *)
(* row-level policies auth.uid() = user_id).                               *)
(***************************************************************************)
EXTENDS Integers, Sequences, FiniteSets, TLC

(* ---- bounds ---- *)
MaxClock == 3
MaxEntries == 2
MaxRemote == 2
MaxImport == 2
MaxExports == 1
MaxLoaded == 2
MaxMonthsAway == 2
MaxCustom == 2
MaxSegments == 3
\* handlers suspended at an await at the same time
MaxPending == 2

(* ---- values ---- *)
Null == "null"
Users == {"u1", "u2"}
EntryTypes == {"event", "thought", "habit", "food", "health"}
FormTypes == {"event", "habit"}
QuickLogTags == <<"quick-log">>
NoEntry == <<>>

VARIABLES supabaseClient, currentUser, db, useSupabase, localStore, remoteRows,
          nextUuid, clock, settings, storedSettings, exported,
          importPc, importQueue, importInfo, lastOp, history,
          timeZone, currentDate, selectedDate, entriesMap, calendarGrid, loadedEntries,
          gridFresh,
          customOptions, storedOptions, quickLast,
          recognition, isRecording, session, restartTimer, voiceBtn, toast,
          voiceLast,
          lastProcessedIndex, results, transcribedText, entryContent, spoken,
          desired,
          initPc, listeners, managerEntries, pending

vars == <<supabaseClient, currentUser, db, useSupabase, localStore, remoteRows,
          nextUuid, clock, settings, storedSettings, exported,
          importPc, importQueue, importInfo, lastOp, history,
          timeZone, currentDate, selectedDate, entriesMap, calendarGrid, loadedEntries,
          gridFresh,
          customOptions, storedOptions, quickLast,
          recognition, isRecording, session, restartTimer, voiceBtn, toast,
          voiceLast,
          lastProcessedIndex, results, transcribedText, entryContent, spoken,
          desired,
          initPc, listeners, managerEntries, pending>>

storageVars == <<localStore, remoteRows, nextUuid, clock>>
authVars == <<supabaseClient, currentUser>>
settingsVars == <<settings, storedSettings>>
importVars == <<importPc, importQueue, importInfo>>
coreVars == <<supabaseClient, currentUser, db, useSupabase, localStore, remoteRows,
              nextUuid, clock, settings, storedSettings, exported,
              importPc, importQueue, importInfo, lastOp, history>>
calendarVars == <<timeZone, currentDate, selectedDate, entriesMap, calendarGrid, loadedEntries,
          gridFresh>>
quickLogVars == <<customOptions, storedOptions, quickLast>>
voiceVars == <<recognition, isRecording, session, restartTimer, voiceBtn, toast,
               voiceLast>>
transcriptVars == <<lastProcessedIndex, results, transcribedText, entryContent, spoken,
                    desired>>
\* the application controller: initPc is the step of App.init that runs next
\* (0 once its catch block has run), listeners the elements that have a handler,
\* managerEntries the EntriesManager's array `entries`, pending the handlers
\* suspended at an await, in the order they were suspended
appVars == <<initPc, listeners, managerEntries, pending>>
uiVars == <<calendarVars, quickLogVars, voiceVars, transcriptVars, appVars>>
exceptCalendar == <<coreVars, quickLogVars, voiceVars, transcriptVars, appVars>>
exceptQuickLog == <<coreVars, calendarVars, voiceVars, transcriptVars, appVars>>
exceptVoice == <<coreVars, calendarVars, quickLogVars, appVars>>

(* ---- conversions ---- *)
\* instants the calendar's entries are dated at, in half days from
\* 2024-01-01T00:00Z: 2023-12-31T12:00Z, 2024-01-31T12:00Z and
\* 2024-03-01T00:00Z
CalendarInstants == {0 - 1, 61, 120}
\* Date.now().toString(): the decimal string of the clock reading
IdOf(t) == ToString(t)
\* new Date().toISOString(): an ISO-8601 string of the clock reading
ToISOString(t) == "iso-" \o ToString(t)
\* new Date(iso).getTime(): parse an ISO string back to epoch milliseconds
GetTime(iso) ==
    CHOOSE t \in (0..(MaxClock + 2)) \cup CalendarInstants : ToISOString(t) = iso
\* gen_random_uuid(): the n-th identifier the backend hands out
Uuid(n) == "uuid-" \o ToString(n)
IsUuid(id) == \E n \in 1..(MaxRemote + 2) : id = Uuid(n)

defaultSettings == [darkMode |-> TRUE]

(* ---- drafts ---- *)
\* entryData.type || 'event'
TypeOrDefault(entryData) ==
    IF "type" \in DOMAIN entryData /\ entryData.type # "" THEN entryData.type ELSE "event"
\* the same without the default: an omitted tags field stays undefined
TagsWithoutDefault(entryData) ==
    IF "tags" \in DOMAIN entryData THEN entryData.tags ELSE <<"undefined">>

\* entryData.tags || []
TagsOrDefault(entryData) ==
    IF "tags" \in DOMAIN entryData THEN entryData.tags ELSE <<>>

\* entryData.content: undefined when the draft has no such property
ContentOf(entryData) ==
    IF "content" \in DOMAIN entryData THEN entryData.content ELSE "undefined"

\* drafts the entry form and the quick-log dropdown can produce
FormDrafts == {[type |-> "event", content |-> "a", tags |-> <<"t">>]}
QuickLogDrafts == {[type |-> "habit", content |-> "b", tags |-> QuickLogTags]}
\* drafts a direct caller of DiaryStorage.createEntry may pass (tags optional)
ApiDrafts == FormDrafts \cup {[type |-> "habit", content |-> "b"]}

(* ---- sequences ---- *)
Range(s) == {s[i] : i \in 1..Len(s)}
\* every order in which a request can enumerate the records of S
Orders(S) ==
    {s \in [1..Cardinality(S) -> S] : \A i, j \in 1..Cardinality(S) : i # j => s[i] # s[j]}

\* entries.sort((a, b) => b.timestamp - a.timestamp): stable insertion of e
RECURSIVE InsertDesc(_, _)
InsertDesc(e, s) ==
    IF s = <<>> THEN <<e>>
    ELSE IF Head(s).timestamp - e.timestamp < 0 THEN <<e>> \o s
         ELSE <<Head(s)>> \o InsertDesc(e, Tail(s))

RECURSIVE SortDescFrom(_, _)
SortDescFrom(s, acc) ==
    IF s = <<>> THEN acc ELSE SortDescFrom(Tail(s), InsertDesc(Head(s), acc))

\* the same without the sort: the entries in the order the request enumerated
Unsorted(s) == s

SortByTimestampDesc(s) == SortDescFrom(s, <<>>)

(* ---- the local object store (IndexedDB, keyPath 'id') ---- *)
HasKey(store, id) == \E e \in store : e.id = id

\* the same without the key constraint
StoreAddNoKeyCheck(store, entry) == [ok |-> TRUE, store |-> store \cup {entry}]

\* store.add(entry): a ConstraintError when the key is already present
StoreAdd(store, entry) ==
    IF HasKey(store, entry.id)
    THEN [ok |-> FALSE, store |-> store]
    ELSE [ok |-> TRUE, store |-> store \cup {entry}]

\* store.get(id): the record, or undefined (the empty result)
StoreGet(store, id) ==
    IF HasKey(store, id) THEN <<CHOOSE e \in store : e.id = id>> ELSE NoEntry

\* store.put(entry): insert or overwrite by key
StorePut(store, entry) == {e \in store : e.id # entry.id} \cup {entry}

\* the same with the filter inverted
StoreDeleteInverted(store, id) == {e \in store : e.id = id}

\* store.delete(id): succeeds whether or not the key is present
StoreDelete(store, id) == {e \in store : e.id # id}

\* the same with the draft's own id, timestamp and date taken over
LocalEntryKeepingGiven(entryData, t1, t2, t3) ==
    [id |-> IF "id" \in DOMAIN entryData THEN entryData.id ELSE IdOf(t1),
     timestamp |-> IF "timestamp" \in DOMAIN entryData THEN entryData.timestamp ELSE t2,
     date |-> IF "date" \in DOMAIN entryData THEN entryData.date ELSE ToISOString(t3),
     type |-> TypeOrDefault(entryData), content |-> ContentOf(entryData),
     tags |-> TagsOrDefault(entryData), customFields |-> <<>>]

\* the record createEntryIndexedDB builds from three clock readings
LocalEntry(entryData, t1, t2, t3) ==
    [id |-> IdOf(t1), timestamp |-> t2, date |-> ToISOString(t3),
     type |-> TypeOrDefault(entryData), content |-> ContentOf(entryData),
     tags |-> TagsOrDefault(entryData), customFields |-> <<>>]

(* ---- the remote table 'entries' ---- *)
\* row-level policy: auth.uid() = user_id
Visible(row) == currentUser # Null /\ row.user_id = currentUser

\* the row createEntrySupabase sends, completed by the column defaults
RemoteRow(entryData, userId, n, t) ==
    [id |-> Uuid(n), user_id |-> userId, type |-> TypeOrDefault(entryData),
     content |-> entryData.content, tags |-> TagsOrDefault(entryData),
     created_at |-> ToISOString(t)]

\* CHECK (type IN (...)) on insert and update
TypeAccepted(type) == type \in EntryTypes

\* "Convert to local format": the mapping applied to every listed row
ToLocalFormat(row) ==
    [id |-> row.id, timestamp |-> GetTime(row.created_at), date |-> row.created_at,
     type |-> row.type, content |-> row.content, tags |-> row.tags]

\* .order('created_at', { ascending: false }) over the rows a select matches
RECURSIVE InsertCreatedDesc(_, _)
InsertCreatedDesc(r, s) ==
    IF s = <<>> THEN <<r>>
    ELSE IF GetTime(Head(s).created_at) < GetTime(r.created_at) THEN <<r>> \o s
         ELSE <<Head(s)>> \o InsertCreatedDesc(r, Tail(s))

RECURSIVE OrderCreatedFrom(_, _)
OrderCreatedFrom(s, acc) ==
    IF s = <<>> THEN acc ELSE OrderCreatedFrom(Tail(s), InsertCreatedDesc(Head(s), acc))

OrderByCreatedAtDesc(s) == OrderCreatedFrom(s, <<>>)

\* data.map(entry => ...): every listed row converted to the local format
ToLocalFormatAll(rows) == [i \in 1..Len(rows) |-> ToLocalFormat(rows[i])]

(* ---- the outcome of the last DiaryStorage / Auth call ---- *)
NoDraft == [none |-> TRUE]

\* op: the call; ok: resolved (TRUE) or rejected (FALSE); id: its id argument
\* or the id it returned; entries: the entries it returned; draft: the draft
\* it was given; remoteTried / remoteFailed: a remote request was issued / it
\* returned an error; local: the local-store operation was executed;
\* afterCreate: the call directly follows the createEntry that returned id
\* (createdLocal: that create wrote to the local store); present: an entry
\* with this id was in the local store or the remote table before the call.
Outcome(op, ok, id, entries, draft, tried, failed, local) ==
    [op |-> op, ok |-> ok, id |-> id, entries |-> entries, draft |-> draft,
     remoteTried |-> tried, remoteFailed |-> failed, local |-> local,
     noSession |-> (useSupabase /\ currentUser = Null),
     afterCreate |-> FALSE, createdLocal |-> FALSE, present |-> FALSE]

\* a store-changing call other than the import's own creates was made since
\* the import started
Disturb(info) == IF importPc = "idle" THEN info ELSE [info EXCEPT !.clean = FALSE]

\* history.deleted: the id of the stored entry the latest resolved deleteEntry
\* was called for, until a createEntry returns that id again ("" when none)
NextDeleted(o) ==
    IF o.op = "createEntry" /\ o.ok /\ o.id = history.deleted
    THEN ""
    ELSE IF o.op = "deleteEntry" /\ o.ok /\ o.present
    THEN o.id
    ELSE history.deleted

\* history.owners: for each entry a createEntry wrote to the local store while
\* a user was signed in, that user (the local record itself keeps no user)
NextOwners(o) ==
    IF o.op = "createEntry" /\ o.ok /\ o.local /\ currentUser # Null
    THEN history.owners \cup {[id |-> o.id, user |-> currentUser]}
    ELSE history.owners

NextHistory(o) == [deleted |-> NextDeleted(o), owners |-> NextOwners(o)]

(* ---- inputs ---- *)
\* the ids a caller can pass: those of stored entries, and one of each kind
\* that was never handed out
AllIds ==
    {e.id : e \in localStore} \cup {r.id : r \in remoteRows}
        \cup {IdOf(0), Uuid(MaxRemote + 1)}
RangeInputs == {<<1, MaxClock>>, <<MaxClock, MaxClock>>}
Updates == {[content |-> "c"]}

IdPresent(id) == HasKey(localStore, id) \/ \E r \in remoteRows : r.id = id

\* { ...entry, ...updates, id, timestamp: entry.timestamp }
MergeEntry(entry, updates, id) ==
    [f \in DOMAIN entry \cup DOMAIN updates \cup {"id", "timestamp"} |->
        IF f = "id" THEN id
        ELSE IF f = "timestamp" THEN entry.timestamp
        ELSE IF f \in DOMAIN updates THEN updates[f]
        ELSE entry[f]]

\* UPDATE entries SET ... : the columns of updates overwrite those of the row
MergeRow(row, updates) ==
    [f \in DOMAIN row |-> IF f \in DOMAIN updates THEN updates[f] ELSE row[f]]

(* ---- the calendar (CalendarView) ---- *)
IsLeap(y) == (y % 4 = 0 /\ y % 100 # 0) \/ y % 400 = 0

\* new Date(year, month + 1, 0).getDate(), months numbered from 0
DaysInMonth(y, m) ==
    IF m = 1 THEN (IF IsLeap(y) THEN 29 ELSE 28)
    ELSE IF m \in {3, 5, 8, 10} THEN 30 ELSE 31

\* the civil date of day n (day 0 is 2024-01-01), walking the months from the
\* one that starts on day start
RECURSIVE CivilFrom(_, _, _, _)
CivilFrom(n, y, m, start) ==
    IF n < start + DaysInMonth(y, m)
    THEN [year |-> y, month |-> m, day |-> n - start + 1]
    ELSE CivilFrom(n, IF m = 11 THEN y + 1 ELSE y, (m + 1) % 12, start + DaysInMonth(y, m))

\* getFullYear / getMonth / getDate of an instant: its date in the local zone
LocalFields(t) == CivilFrom((t + timeZone) \div 2, 2023, 11, 0 - 31)

\* new Date(y, m, d) and Date.setMonth: a month outside 0..11 carries into the
\* year, a day past the end of the month carries into the next month
RECURSIVE MakeDate(_, _, _)
MakeDate(y, m, d) ==
    LET yy == y + (m \div 12)
        mm == m % 12
    IN IF d <= DaysInMonth(yy, mm)
       THEN [year |-> yy, month |-> mm, day |-> d]
       ELSE MakeDate(yy, mm + 1, d - DaysInMonth(yy, mm))

\* `${year}-${month}-${day}`
DateKey(y, m, d) == ToString(y) \o "-" \o ToString(m) \o "-" \o ToString(d)

\* the same with the fields of the UTC date
EntryDateKeyUTC(entry) ==
    IF "date" \in DOMAIN entry
    THEN LET f == CivilFrom(GetTime(entry.date) \div 2, 2023, 11, 0 - 31)
         IN DateKey(f.year, f.month, f.day)
    ELSE "NaN-NaN-NaN"

\* the key loadEntries files an entry under; new Date(undefined) is an invalid
\* date, whose fields are all NaN
EntryDateKey(entry) ==
    IF "date" \in DOMAIN entry
    THEN LET f == LocalFields(GetTime(entry.date))
         IN DateKey(f.year, f.month, f.day)
    ELSE "NaN-NaN-NaN"

\* the Map loadEntries builds: key -> the entries filed under it, in order
BuildEntriesMap(entries) ==
    [k \in {EntryDateKey(entries[i]) : i \in 1..Len(entries)} |->
        SelectSeq(entries, LAMBDA e : EntryDateKey(e) = k)]

\* the day cells render writes for the month of currentDate
NoGrid == [year |-> 0, month |-> 0, cells |-> <<>>]

\* entries as DiaryStorage returns them: listed entries carry a date, a raw
\* remote row (getEntry) carries none
CalendarEntries ==
    {[id |-> IdOf(t), date |-> ToISOString(t)] : t \in CalendarInstants}
        \cup {[id |-> Uuid(1)]}

SeqsUpTo(S, n) == UNION {[1..k -> S] : k \in 0..n}

\* the dates the page can be opened on (local): 2024-01-31 and 2024-02-15
Todays == {[year |-> 2024, month |-> 0, day |-> 31],
           [year |-> 2024, month |-> 1, day |-> 15]}

MonthIndex(date) == date.year * 12 + date.month

(* ---- the quick-log catalog (QuickLog) ---- *)
\* the characters of the catalog and of the strings typed, in the order of
\* their UTF-16 code units (space 32, + 43, digits, capitals, small letters)
Alphabet == " +0123456789ABCDEFGHIJKLMNOPQRSTUVWXYZabcdefghijklmnopqrstuvwxyz"

CodeUnitOrder ==
    [c \in {SubSeq(Alphabet, i, i) : i \in 1..Len(Alphabet)} |->
       CHOOSE i \in 1..Len(Alphabet) : SubSeq(Alphabet, i, i) = c]

CodeUnit(c) == CodeUnitOrder[c]

\* a < b as Array.prototype.sort compares strings without a comparator: code
\* unit by code unit, a proper prefix first
RECURSIVE StringLess(_, _)
StringLess(a, b) ==
    IF b = "" THEN FALSE
    ELSE IF a = "" THEN TRUE
    ELSE IF Head(a) = Head(b) THEN StringLess(Tail(a), Tail(b))
    ELSE CodeUnit(Head(a)) < CodeUnit(Head(b))

RECURSIVE TrimStart(_)
TrimStart(s) == IF s # "" /\ Head(s) = " " THEN TrimStart(Tail(s)) ELSE s

RECURSIVE TrimEnd(_)
TrimEnd(s) ==
    IF s # "" /\ SubSeq(s, Len(s), Len(s)) = " "
    THEN TrimEnd(SubSeq(s, 1, Len(s) - 1))
    ELSE s

\* String.prototype.trim, on strings whose only white space is the space
Trim(s) == TrimEnd(TrimStart(s))

QuickLogTypes == {"habit", "food", "health"}

defaultOptions ==
    [habit |-> <<"Morning meditation", "Exercise", "Read for 30min",
                 "Drink 8 glasses of water", "No social media", "Early to bed",
                 "Journaling", "Gratitude practice">>,
     food |-> <<"Breakfast", "Lunch", "Dinner", "Snack", "Healthy meal",
                "Cheat meal", "Skipped meal", "Ate out", "Meal prep">>,
     health |-> <<"Took medication", "8+ hours sleep", "Feeling energetic",
                  "Feeling tired", "Headache", "Workout completed",
                  "Doctor appointment", "Vitamins taken", "Feeling great">>]

\* let customOptions = { habit: [], food: [], health: [] }
NoCustomOptions == [t \in QuickLogTypes |-> <<>>]

\* [...new Set(list)]: the first occurrence of every string, in order
Distinct(list) ==
    LET firsts == {i \in 1..Len(list) : \A j \in 1..(i - 1) : list[j] # list[i]}
    IN [k \in 1..Cardinality(firsts) |->
          list[CHOOSE i \in firsts : Cardinality({j \in firsts : j < i}) = k - 1]]

\* the place of x in a list in ascending order
RECURSIVE InsertString(_, _)
InsertString(sorted, x) ==
    IF sorted = <<>> THEN <<x>>
    ELSE IF StringLess(x, Head(sorted)) THEN <<x>> \o sorted
    ELSE <<Head(sorted)>> \o InsertString(Tail(sorted), x)

RECURSIVE SortedFrom(_)
SortedFrom(list) ==
    IF list = <<>> THEN <<>>
    ELSE InsertString(SortedFrom(SubSeq(list, 1, Len(list) - 1)), list[Len(list)])

\* the same without the sort
LeftAsGiven(list) == list

\* list.sort()
SortStrings(list) == SortedFrom(list)

\* customOptions[type] || []
CustomOf(custom, type) == IF type \in DOMAIN custom THEN custom[type] ELSE <<>>

\* the same without the built-in options
GetOptionsCustomOnly(custom, type) ==
    IF type \notin DOMAIN defaultOptions THEN <<>>
    ELSE SortStrings(Distinct(CustomOf(custom, type)))

\* getOptions(type), given the user-added lists
GetOptionsOf(custom, type) ==
    IF type \notin DOMAIN defaultOptions THEN <<>>
    ELSE SortStrings(Distinct(defaultOptions[type] \o CustomOf(custom, type)))

getOptions(type) == GetOptionsOf(customOptions, type)

\* the same with nothing ever found
IncludesNothing(list, x) == FALSE

\* list.includes(x)
Includes(list, x) == x \in Range(list)

RECURSIVE SumLen(_, _)
SumLen(custom, types) ==
    IF types = {} THEN 0
    ELSE LET t == CHOOSE x \in types : TRUE
         IN Len(custom[t]) + SumLen(custom, types \ {t})

\* the number of user-added options, all types together
TotalCustom(custom) == SumLen(custom, DOMAIN custom)

\* list.indexOf(x), counted from 1; 0 when x is not in the list
IndexOf(list, x) ==
    IF x \in Range(list) THEN CHOOSE i \in 1..Len(list) :
                                 list[i] = x /\ \A j \in 1..(i - 1) : list[j] # x
    ELSE 0

\* list.splice(index, 1)
Splice(list, index) == SubSeq(list, 1, index - 1) \o SubSeq(list, index + 1, Len(list))

\* the types a caller passes: the three quick-log types and a text type
OptionTypes == QuickLogTypes \cup {"event"}

\* the strings a caller passes: new ones, padded, in another case, a built-in
\* habit, empty, blank
OptionInputs == {"Yoga", " Yoga ", "yoga", "Exercise", "", " "}

\* quickLast: the last QuickLog call and its result, whether it repeats the
\* call before it, whether the lists changed, the size of the type's custom
\* list when it was made and, for addCustomOption, whether the string was in
\* the merged list and the size of that list
NoQuickCall ==
    [op |-> "none", type |-> "", option |-> "", result |-> FALSE, repeat |-> FALSE,
     listed |-> FALSE, optionsBefore |-> 0, customBefore |-> 0, changed |-> FALSE]

QuickCall(op, type, option, result, custom, allOptions) ==
    [op |-> op, type |-> type, option |-> option, result |-> result,
     repeat |-> (quickLast.op = op /\ quickLast.type = type /\ quickLast.option = option),
     listed |-> Includes(allOptions, option),
     optionsBefore |-> Len(allOptions),
     customBefore |-> Len(CustomOf(customOptions, type)),
     changed |-> (custom # customOptions)]

(* ---- voice capture (VoiceRecorder) ---- *)
\* event.error of the recognition's error event
SpeechErrors == {"no-speech", "audio-capture", "not-allowed", "network", "aborted"}

\* the same with no error stopping the recording
StopsRecordingNever(error) == FALSE

\* the errors on which onerror sets isRecording = false
StopsRecording(error) == error \in {"audio-capture", "not-allowed"}

\* the same with every error passed to the callback
NotifiesAlways(error) == TRUE

\* the errors on which onerror calls onErrorCallback
Notifies(error) == error \in {"audio-capture", "not-allowed"}

\* what onErrorCallback is called with
CallbackArgument(error) ==
    IF error = "audio-capture" THEN "Microphone not available" ELSE error

\* the toast of onVoiceError
VoiceErrorToast(error) ==
    IF error = "not-allowed" THEN "Microphone access denied"
    ELSE "Voice recognition error"

\* whether the recognition service goes on listening after the error or
\* disconnects: it disconnects when it cannot capture or was aborted, and
\* may do either otherwise
SessionsAfter(error) ==
    IF error \in {"audio-capture", "not-allowed", "aborted"} THEN {"ending"}
    ELSE {"listening", "ending"}

\* recognition.start(): a session begins unless one is there, in which case
\* it throws and the caller ignores it
RecognitionStart(s) == IF s = "idle" THEN "listening" ELSE s

\* recognition.stop(): the session is asked to end
RecognitionStop(s) == IF s = "listening" THEN "ending" ELSE s

\* the same with the end of a session never followed by a restart
SchedulesRestartNever(recording) == FALSE

\* onend: if (isRecording) setTimeout(...)
SchedulesRestart(recording) == recording

\* the same with the flag not looked at when the timeout fires
RestartsAlways(recording) == TRUE

\* the timeout's callback: if (isRecording) recognition.start()
RestartsWhen(recording) == recording

\* a result of the recognition: the segment heard (segments are numbered as
\* the engine finalizes them; the one being heard has the next number) and
\* whether it is final
Result(segment, isFinal) == [transcript |-> segment, isFinal |-> isFinal]

\* the loop of onresult over event.results from index i (counted from 0), with
\* last as lastProcessedIndex: the final and the interim transcript and the
\* index left in lastProcessedIndex
RECURSIVE ProcessResults(_, _, _, _, _)
ProcessResults(eventResults, i, last, finalTranscript, interimTranscript) ==
    IF i >= Len(eventResults)
    THEN [final |-> finalTranscript, interim |-> interimTranscript, last |-> last]
    ELSE LET result == eventResults[i + 1]
         IN IF result.isFinal
            THEN IF i > last
                 THEN ProcessResults(eventResults, i + 1, i,
                                     Append(finalTranscript, result.transcript),
                                     interimTranscript)
                 ELSE ProcessResults(eventResults, i + 1, last, finalTranscript,
                                     interimTranscript)
            ELSE ProcessResults(eventResults, i + 1, last, finalTranscript,
                                Append(interimTranscript, result.transcript))

\* what onresult passes to the callback
TranscriptResult(processed) ==
    [final |-> processed.final, interim |-> processed.interim,
     isFinal |-> processed.final # <<>>]

\* the same with the interim text added as well
AccumulatedWithInterim(result) == result.final \o result.interim

\* onTranscript: what is added to transcribedText
Accumulated(result) == result.final

\* the entry form's text area: the running transcript and the interim preview
NoContent == [text |-> <<>>, interim |-> <<>>]

\* what the engine reports next: the segment being heard as interim, as
\* final, or as final together with the next segment as interim
ResultKinds == {"interim", "final", "finalThenInterim"}

NewResults(kind) ==
    IF kind = "interim" THEN <<Result(spoken + 1, FALSE)>>
    ELSE IF kind = "final" THEN <<Result(spoken + 1, TRUE)>>
    ELSE <<Result(spoken + 1, TRUE), Result(spoken + 2, FALSE)>>

\* voiceLast: the last event (ev), the button's last call (call), the last
\* error reported since the button was last clicked ("" if none) and whether
\* onErrorCallback was called for it
NoVoiceEvent == [ev |-> "none", call |-> "", error |-> "", notified |-> FALSE]


\* importInfo: the document being imported (n entries, its settings, whether
\* exportData wrote it) and the number of stored entries when the import began
NoImport ==
    [n |-> 0, base |-> 0, fromExport |-> FALSE, clean |-> TRUE, settings |-> <<>>,
     malformed |-> FALSE]

Init ==
    /\ supabaseClient \in BOOLEAN
    /\ currentUser = Null
    /\ db = FALSE
    /\ useSupabase = FALSE
    /\ localStore = {}
    /\ remoteRows = {}
    /\ nextUuid = 1
    /\ clock = 1
    /\ settings = defaultSettings
    /\ storedSettings = <<>>
    /\ exported = <<>>
    /\ importPc = "idle"
    /\ importQueue = <<>>
    /\ importInfo = NoImport
    /\ lastOp = Outcome("none", TRUE, "", <<>>, NoDraft, FALSE, FALSE, FALSE)
    /\ history = [deleted |-> "", owners |-> {}]
    /\ timeZone = 0
    /\ currentDate = [year |-> 2024, month |-> 1, day |-> 15]
    /\ selectedDate = <<>>
    /\ entriesMap = <<>>
    /\ calendarGrid = NoGrid
    /\ loadedEntries = <<>>
    /\ gridFresh = FALSE
    /\ customOptions = NoCustomOptions
    /\ storedOptions = <<>>
    /\ quickLast = NoQuickCall
    /\ recognition = FALSE
    /\ isRecording = FALSE
    /\ session = "idle"
    /\ restartTimer = FALSE
    /\ voiceBtn = FALSE
    /\ toast = <<>>
    /\ voiceLast = NoVoiceEvent
    /\ lastProcessedIndex = 0 - 1
    /\ results = <<>>
    /\ transcribedText = <<>>
    /\ entryContent = NoContent
    /\ spoken = 0
    /\ desired = {}
    /\ initPc = 1
    /\ listeners = {}
    /\ managerEntries = <<>>
    /\ pending = <<>>

\* the page opened on one of the dates, in a zone 12 hours behind UTC, at UTC,
\* or 12 hours ahead
InitCalendar ==
    /\ supabaseClient = FALSE
    /\ timeZone \in {0 - 1, 0, 1}
    /\ currentDate \in Todays
    /\ selectedDate = <<>>
    /\ entriesMap = <<>>
    /\ calendarGrid = NoGrid
    /\ loadedEntries = <<>>
    /\ gridFresh = FALSE
    /\ currentUser = Null
    /\ db = FALSE
    /\ useSupabase = FALSE
    /\ localStore = {}
    /\ remoteRows = {}
    /\ nextUuid = 1
    /\ clock = 1
    /\ settings = defaultSettings
    /\ storedSettings = <<>>
    /\ exported = <<>>
    /\ importPc = "idle"
    /\ importQueue = <<>>
    /\ importInfo = NoImport
    /\ lastOp = Outcome("none", TRUE, "", <<>>, NoDraft, FALSE, FALSE, FALSE)
    /\ history = [deleted |-> "", owners |-> {}]
    /\ customOptions = NoCustomOptions
    /\ storedOptions = <<>>
    /\ quickLast = NoQuickCall
    /\ recognition = FALSE
    /\ isRecording = FALSE
    /\ session = "idle"
    /\ restartTimer = FALSE
    /\ voiceBtn = FALSE
    /\ toast = <<>>
    /\ voiceLast = NoVoiceEvent
    /\ lastProcessedIndex = 0 - 1
    /\ results = <<>>
    /\ transcribedText = <<>>
    /\ entryContent = NoContent
    /\ spoken = 0
    /\ desired = {}
    /\ initPc = 1
    /\ listeners = {}
    /\ managerEntries = <<>>
    /\ pending = <<>>

\* the same with the handle taken for granted
NotInitializedIgnored == FALSE

\* if (!db): the guard that opens every local-store operation
NotInitialized == ~db

\* a page load: the modules start again from their initial values (no database
\* handle, no session, default settings) while the object store, the remote
\* table, localStorage and the files written keep their contents
Reload ==
    /\ db' = FALSE
    /\ useSupabase' = FALSE
    /\ currentUser' = Null
    /\ settings' = defaultSettings
    /\ importPc' = "idle"
    /\ importQueue' = <<>>
    /\ importInfo' = NoImport
    /\ lastOp' = [Outcome("reload", TRUE, "", <<>>, NoDraft, FALSE, FALSE, FALSE)
                    EXCEPT !.noSession = FALSE]
    /\ UNCHANGED <<supabaseClient, storageVars, storedSettings, exported>>
    /\ UNCHANGED history
    /\ UNCHANGED uiVars

\* the clock advances between two readings of Date.now()
Tick ==
    /\ clock < MaxClock
    /\ clock' = clock + 1
    /\ UNCHANGED <<authVars, db, useSupabase, localStore, remoteRows, nextUuid,
                   settingsVars, exported, importVars, lastOp>>
    /\ UNCHANGED history
    /\ UNCHANGED uiVars

\* DiaryStorage.init: useSupabase from the configuration, then open the database
InitStorage ==
    /\ ~db
    /\ useSupabase' = supabaseClient
    /\ \E opened \in BOOLEAN :
          /\ db' = opened
          /\ lastOp' = [Outcome("init", opened, "", <<>>, NoDraft, FALSE, FALSE, TRUE)
                          EXCEPT !.noSession = (supabaseClient /\ currentUser = Null)]
    /\ UNCHANGED <<authVars, storageVars, settingsVars, exported, importVars>>
    /\ UNCHANGED history
    /\ UNCHANGED uiVars

\* Auth.signIn / the SIGNED_IN event / a restored session in Auth.init
SignIn(u) ==
    /\ supabaseClient
    /\ currentUser # u
    /\ currentUser' = u
    /\ lastOp' = [Outcome("signIn", TRUE, "", <<>>, NoDraft, TRUE, FALSE, FALSE)
                    EXCEPT !.noSession = FALSE]
    /\ importInfo' = Disturb(importInfo)
    /\ UNCHANGED <<supabaseClient, db, useSupabase, storageVars, settingsVars,
                   exported, importPc, importQueue>>
    /\ UNCHANGED history
    /\ UNCHANGED uiVars

\* Auth.signOut / the SIGNED_OUT event
SignOut ==
    /\ supabaseClient
    /\ currentUser # Null
    /\ currentUser' = Null
    /\ lastOp' = [Outcome("signOut", TRUE, "", <<>>, NoDraft, TRUE, FALSE, FALSE)
                    EXCEPT !.noSession = useSupabase]
    /\ importInfo' = Disturb(importInfo)
    /\ UNCHANGED <<supabaseClient, db, useSupabase, storageVars, settingsVars,
                   exported, importPc, importQueue>>
    /\ UNCHANGED history
    /\ UNCHANGED uiVars

\* the same with the user id taken for granted
NotAuthenticatedIgnored == FALSE

\* if (!userId), with userId = Auth.getUserId()
NotAuthenticated == currentUser = Null

(* ---- createEntry ---- *)
\* the entries held by the two stores together (bounded by MaxEntries)
StoredTotal == Cardinality(localStore) + Cardinality(remoteRows)

\* createEntryIndexedDB; tried / failed say whether a remote insert preceded it
createEntryIndexedDB(entryData, tried, failed) ==
    IF NotInitialized
    THEN /\ lastOp' = Outcome("createEntry", FALSE, "", <<>>, entryData, tried, failed, TRUE)
         /\ UNCHANGED storageVars
    ELSE /\ StoredTotal < MaxEntries
         /\ \E t2 \in {clock, clock + 1}, t3 \in {clock, clock + 1, clock + 2} :
               /\ t2 <= t3 /\ t3 <= t2 + 1 /\ t3 <= MaxClock
               /\ LET entry == LocalEntry(entryData, clock, t2, t3)
                      added == StoreAdd(localStore, entry)
                  IN /\ localStore' = added.store
                     /\ clock' = t3
                     /\ lastOp' = [Outcome("createEntry", added.ok,
                                           IF added.ok THEN entry.id ELSE "",
                                           <<>>, entryData, tried, failed, TRUE)
                                     EXCEPT !.present = HasKey(localStore, entry.id)]
         /\ UNCHANGED <<remoteRows, nextUuid>>

\* createEntrySupabase: insert(...).select().single()
createEntrySupabase(entryData) ==
    IF NotAuthenticated
    THEN createEntryIndexedDB(entryData, FALSE, FALSE)
    ELSE \E up \in BOOLEAN :
           IF up /\ TypeAccepted(TypeOrDefault(entryData))
           THEN /\ nextUuid <= MaxRemote /\ StoredTotal < MaxEntries
                /\ LET row == RemoteRow(entryData, currentUser, nextUuid, clock)
                   IN /\ remoteRows' = remoteRows \cup {row}
                      /\ lastOp' = Outcome("createEntry", TRUE, row.id, <<>>,
                                           entryData, TRUE, FALSE, FALSE)
                /\ nextUuid' = nextUuid + 1
                /\ UNCHANGED <<localStore, clock>>
           ELSE createEntryIndexedDB(entryData, TRUE, TRUE)

createEntryCall(entryData) ==
    IF useSupabase THEN createEntrySupabase(entryData)
    ELSE createEntryIndexedDB(entryData, FALSE, FALSE)

\* DiaryStorage.createEntry, called by the form submit, the quick log or a caller
createEntry(entryData) ==
    /\ createEntryCall(entryData)
    /\ importInfo' = Disturb(importInfo)
    /\ UNCHANGED <<authVars, db, useSupabase, settingsVars, exported,
                   importPc, importQueue>>
    /\ history' = NextHistory(lastOp')
    /\ UNCHANGED uiVars

(* ---- getAllEntries ---- *)
\* the outcomes getAllEntriesIndexedDB can have: one per enumeration order
getAllEntriesIndexedDB(tried, failed) ==
    IF NotInitialized
    THEN {Outcome("getAllEntries", FALSE, "", <<>>, NoDraft, tried, failed, TRUE)}
    ELSE {Outcome("getAllEntries", TRUE, "", SortByTimestampDesc(s),
                  NoDraft, tried, failed, TRUE) : s \in Orders(localStore)}

\* select('*').eq('user_id', userId).order('created_at', { ascending: false })
getAllEntriesRemote ==
    {Outcome("getAllEntries", TRUE, "", ToLocalFormatAll(OrderByCreatedAtDesc(s)),
             NoDraft, TRUE, FALSE, FALSE) :
        s \in Orders({r \in remoteRows : Visible(r) /\ r.user_id = currentUser})}

getAllEntriesSupabase ==
    IF NotAuthenticated
    THEN getAllEntriesIndexedDB(FALSE, FALSE)
    ELSE getAllEntriesRemote \cup getAllEntriesIndexedDB(TRUE, TRUE)

getAllEntriesOutcomes ==
    IF useSupabase THEN getAllEntriesSupabase ELSE getAllEntriesIndexedDB(FALSE, FALSE)

getAllEntries ==
    /\ \E o \in getAllEntriesOutcomes : lastOp' = o
    /\ UNCHANGED <<authVars, db, useSupabase, storageVars, settingsVars, exported,
                   importVars>>
    /\ UNCHANGED history
    /\ UNCHANGED uiVars

(* ---- getEntry ---- *)
getEntryIndexedDB(id, tried, failed) ==
    IF NotInitialized
    THEN Outcome("getEntry", FALSE, id, <<>>, NoDraft, tried, failed, TRUE)
    ELSE Outcome("getEntry", TRUE, id, StoreGet(localStore, id),
                 NoDraft, tried, failed, TRUE)

\* select('*').eq('id', id).single(): an error unless exactly one row matches;
\* the row is returned as it is, not converted to the local format
getEntryRemote(id, up) ==
    LET rows == {r \in remoteRows : Visible(r) /\ r.id = id}
    IN IF up /\ IsUuid(id) /\ Cardinality(rows) = 1
       THEN Outcome("getEntry", TRUE, id, <<CHOOSE r \in rows : TRUE>>,
                    NoDraft, TRUE, FALSE, FALSE)
       ELSE getEntryIndexedDB(id, TRUE, TRUE)

getEntryOutcomes(id) ==
    IF useSupabase
    THEN {getEntryRemote(id, up) : up \in BOOLEAN}
    ELSE {getEntryIndexedDB(id, FALSE, FALSE)}

\* whether this getEntry directly follows the createEntry that returned id
FollowsCreate(id) == lastOp.op = "createEntry" /\ lastOp.ok /\ lastOp.id = id

getEntry(id) ==
    /\ \E o \in getEntryOutcomes(id) :
          lastOp' = [o EXCEPT !.afterCreate = FollowsCreate(id),
                              !.createdLocal = FollowsCreate(id) /\ lastOp.local,
                              !.draft = IF FollowsCreate(id) THEN lastOp.draft ELSE NoDraft,
                              !.present = IdPresent(id)]
    /\ UNCHANGED <<authVars, db, useSupabase, storageVars, settingsVars, exported,
                   importVars>>
    /\ UNCHANGED history
    /\ UNCHANGED uiVars

(* ---- getEntriesByDateRange ---- *)
\* index('date').getAll(IDBKeyRange.bound(start.toISOString(), end.toISOString()))
InDateRange(iso, startDate, endDate) ==
    GetTime(ToISOString(startDate)) <= GetTime(iso) /\ GetTime(iso) <= GetTime(ToISOString(endDate))

getEntriesByDateRangeIndexedDB(startDate, endDate) ==
    IF NotInitialized
    THEN {Outcome("getEntriesByDateRange", FALSE, "", <<>>, NoDraft, FALSE, FALSE, TRUE)}
    ELSE {Outcome("getEntriesByDateRange", TRUE, "", SortByTimestampDesc(s),
                  NoDraft, FALSE, FALSE, TRUE) :
            s \in Orders({e \in localStore : InDateRange(e.date, startDate, endDate)})}

\* no session check and no catch: a remote error is thrown to the caller
getEntriesByDateRangeOutcomes(startDate, endDate) ==
    IF useSupabase
    THEN {Outcome("getEntriesByDateRange", FALSE, "", <<>>, NoDraft, TRUE, TRUE, FALSE)}
         \cup
         (IF currentUser = Null THEN {}
          ELSE {Outcome("getEntriesByDateRange", TRUE, "",
                        ToLocalFormatAll(OrderByCreatedAtDesc(s)),
                        NoDraft, TRUE, FALSE, FALSE) :
                  s \in Orders({r \in remoteRows :
                                  /\ Visible(r) /\ r.user_id = currentUser
                                  /\ InDateRange(r.created_at, startDate, endDate)})})
    ELSE getEntriesByDateRangeIndexedDB(startDate, endDate)

getEntriesByDateRange(startDate, endDate) ==
    /\ \E o \in getEntriesByDateRangeOutcomes(startDate, endDate) : lastOp' = o
    /\ UNCHANGED <<authVars, db, useSupabase, storageVars, settingsVars, exported,
                   importVars>>
    /\ UNCHANGED history
    /\ UNCHANGED uiVars

(* ---- getEntriesByType ---- *)
getEntriesByTypeIndexedDB(type) ==
    IF NotInitialized
    THEN {Outcome("getEntriesByType", FALSE, "", <<>>, NoDraft, FALSE, FALSE, TRUE)}
    ELSE {Outcome("getEntriesByType", TRUE, "", SortByTimestampDesc(s),
                  NoDraft, FALSE, FALSE, TRUE) :
            s \in Orders({e \in localStore : e.type = type})}

getEntriesByTypeOutcomes(type) ==
    IF useSupabase
    THEN {Outcome("getEntriesByType", FALSE, "", <<>>, NoDraft, TRUE, TRUE, FALSE)}
         \cup
         (IF currentUser = Null THEN {}
          ELSE {Outcome("getEntriesByType", TRUE, "",
                        ToLocalFormatAll(OrderByCreatedAtDesc(s)),
                        NoDraft, TRUE, FALSE, FALSE) :
                  s \in Orders({r \in remoteRows :
                                  /\ Visible(r) /\ r.user_id = currentUser
                                  /\ r.type = type})})
    ELSE getEntriesByTypeIndexedDB(type)

getEntriesByType(type) ==
    /\ \E o \in getEntriesByTypeOutcomes(type) : lastOp' = o
    /\ UNCHANGED <<authVars, db, useSupabase, storageVars, settingsVars, exported,
                   importVars>>
    /\ UNCHANGED history
    /\ UNCHANGED uiVars

(* ---- updateEntry ---- *)
updateEntryIndexedDB(id, updates) ==
    IF NotInitialized \/ ~HasKey(localStore, id)
    THEN /\ lastOp' = [Outcome("updateEntry", FALSE, id, <<>>, updates, FALSE, FALSE, TRUE)
                         EXCEPT !.present = IdPresent(id)]
         /\ UNCHANGED storageVars
    ELSE LET entry == CHOOSE e \in localStore : e.id = id
             updatedEntry == MergeEntry(entry, updates, id)
         IN /\ localStore' = StorePut(localStore, updatedEntry)
            /\ lastOp' = [Outcome("updateEntry", TRUE, id, <<>>, updates, FALSE, FALSE, TRUE)
                            EXCEPT !.present = IdPresent(id)]
            /\ UNCHANGED <<remoteRows, nextUuid, clock>>

\* update(updates).eq('id', id): no session check, no fallback
updateEntrySupabase(id, updates) ==
    \E up \in BOOLEAN :
      IF up /\ IsUuid(id) /\ ("type" \in DOMAIN updates => TypeAccepted(updates.type))
      THEN /\ remoteRows' = {IF Visible(r) /\ r.id = id THEN MergeRow(r, updates) ELSE r :
                               r \in remoteRows}
           /\ lastOp' = [Outcome("updateEntry", TRUE, id, <<>>, updates, TRUE, FALSE, FALSE)
                           EXCEPT !.present = IdPresent(id)]
           /\ UNCHANGED <<localStore, nextUuid, clock>>
      ELSE /\ lastOp' = [Outcome("updateEntry", FALSE, id, <<>>, updates, TRUE, TRUE, FALSE)
                           EXCEPT !.present = IdPresent(id)]
           /\ UNCHANGED storageVars

updateEntry(id, updates) ==
    /\ IF useSupabase THEN updateEntrySupabase(id, updates)
       ELSE updateEntryIndexedDB(id, updates)
    /\ importInfo' = Disturb(importInfo)
    /\ UNCHANGED <<authVars, db, useSupabase, settingsVars, exported,
                   importPc, importQueue>>
    /\ UNCHANGED history
    /\ UNCHANGED uiVars

(* ---- deleteEntry ---- *)
deleteEntryIndexedDB(id) ==
    IF NotInitialized
    THEN /\ lastOp' = [Outcome("deleteEntry", FALSE, id, <<>>, NoDraft, FALSE, FALSE, TRUE)
                         EXCEPT !.present = IdPresent(id)]
         /\ UNCHANGED storageVars
    ELSE /\ localStore' = StoreDelete(localStore, id)
         /\ lastOp' = [Outcome("deleteEntry", TRUE, id, <<>>, NoDraft, FALSE, FALSE, TRUE)
                         EXCEPT !.present = IdPresent(id)]
         /\ UNCHANGED <<remoteRows, nextUuid, clock>>

\* delete().eq('id', id): no session check, no fallback; the rows the policy
\* hides are not deleted and their absence is not an error
deleteEntrySupabase(id) ==
    \E up \in BOOLEAN :
      IF up /\ IsUuid(id)
      THEN /\ remoteRows' = {r \in remoteRows : ~(Visible(r) /\ r.id = id)}
           /\ lastOp' = [Outcome("deleteEntry", TRUE, id, <<>>, NoDraft, TRUE, FALSE, FALSE)
                           EXCEPT !.present = IdPresent(id)]
           /\ UNCHANGED <<localStore, nextUuid, clock>>
      ELSE /\ lastOp' = [Outcome("deleteEntry", FALSE, id, <<>>, NoDraft, TRUE, TRUE, FALSE)
                           EXCEPT !.present = IdPresent(id)]
           /\ UNCHANGED storageVars

deleteEntry(id) ==
    /\ IF useSupabase THEN deleteEntrySupabase(id) ELSE deleteEntryIndexedDB(id)
    /\ importInfo' = Disturb(importInfo)
    /\ UNCHANGED <<authVars, db, useSupabase, settingsVars, exported,
                   importPc, importQueue>>
    /\ history' = NextHistory(lastOp')
    /\ UNCHANGED uiVars

(* ---- clearAll ---- *)
clearAllIndexedDB ==
    IF NotInitialized
    THEN /\ lastOp' = Outcome("clearAll", FALSE, "", <<>>, NoDraft, FALSE, FALSE, TRUE)
         /\ UNCHANGED storageVars
    ELSE /\ localStore' = {}
         /\ lastOp' = Outcome("clearAll", TRUE, "", <<>>, NoDraft, FALSE, FALSE, TRUE)
         /\ UNCHANGED <<remoteRows, nextUuid, clock>>

\* delete().eq('user_id', userId): no session check, no fallback
clearAllSupabase ==
    \E up \in BOOLEAN :
      IF up /\ currentUser # Null
      THEN /\ remoteRows' = {r \in remoteRows : ~(Visible(r) /\ r.user_id = currentUser)}
           /\ lastOp' = Outcome("clearAll", TRUE, "", <<>>, NoDraft, TRUE, FALSE, FALSE)
           /\ UNCHANGED <<localStore, nextUuid, clock>>
      ELSE /\ lastOp' = Outcome("clearAll", FALSE, "", <<>>, NoDraft, TRUE, TRUE, FALSE)
           /\ UNCHANGED storageVars

clearAll ==
    /\ IF useSupabase THEN clearAllSupabase ELSE clearAllIndexedDB
    /\ importInfo' = Disturb(importInfo)
    /\ UNCHANGED <<authVars, db, useSupabase, settingsVars, exported,
                   importPc, importQueue>>
    /\ UNCHANGED history
    /\ UNCHANGED uiVars

(* ---- Settings: preferences, export, import ---- *)
\* the darkModeToggle change handler: set the flag and save
toggleDarkMode ==
    /\ settings' = [settings EXCEPT !.darkMode = ~settings.darkMode]
    /\ storedSettings' = <<settings'>>
    /\ UNCHANGED <<authVars, db, useSupabase, storageVars, exported, importVars, lastOp>>
    /\ UNCHANGED history
    /\ UNCHANGED uiVars

\* Settings.exportData: all entries plus the settings in one document, which
\* Components.exportJSON writes to a file; exported holds the files written
exportData ==
    /\ Len(exported) < MaxExports
    /\ \E o \in getAllEntriesOutcomes :
          /\ lastOp' = o
          /\ exported' = IF o.ok /\ Len(o.entries) <= MaxImport
                         THEN Append(exported, [entries |-> o.entries, isArray |-> TRUE,
                                                settings |-> <<settings>>])
                         ELSE exported
    /\ UNCHANGED <<authVars, db, useSupabase, storageVars, settingsVars, importVars>>
    /\ UNCHANGED history
    /\ UNCHANGED uiVars

\* documents written by something other than exportData: an entry of an
\* unknown type, settings only, "entries" a string (iterated character by
\* character), no "entries" at all, and a file that is not JSON
ForeignDocs ==
    {[entries |-> <<[type |-> "mood", content |-> "a"]>>, isArray |-> TRUE, settings |-> <<>>],
     [entries |-> <<>>, isArray |-> TRUE, settings |-> <<[darkMode |-> FALSE]>>],
     [entries |-> <<[char |-> "x"]>>, isArray |-> FALSE, settings |-> <<[darkMode |-> FALSE]>>],
     [version |-> 1],
     [invalidJson |-> TRUE]}

ImportDocs == ForeignDocs \cup Range(exported)

\* the same without Array.isArray
WellFormedNoArrayCheck(doc) == "entries" \in DOMAIN doc

\* Components.importJSON resolves, data.entries is set and Array.isArray holds
WellFormed(doc) ==
    /\ "invalidJson" \notin DOMAIN doc
    /\ "entries" \in DOMAIN doc
    /\ doc.isArray

\* the file is not valid JSON or the document has no entries array
DocMalformed(doc) ==
    \/ "invalidJson" \in DOMAIN doc
    \/ "entries" \notin DOMAIN doc
    \/ ~doc.isArray

\* the entries getAllEntries would list from the store that answers
StoredCount ==
    Cardinality(localStore) + Cardinality({r \in remoteRows : Visible(r)})

\* Settings.importData up to its loop: parse, validate, confirm
importData(doc, confirmed) ==
    /\ importPc # "running"
    /\ IF ~WellFormed(doc)
       THEN /\ importPc' = "failed"
            /\ importQueue' = <<>>
            /\ importInfo' = [NoImport EXCEPT !.malformed = DocMalformed(doc)]
       ELSE IF ~confirmed
       THEN /\ importPc' = "idle"
            /\ importQueue' = <<>>
            /\ importInfo' = NoImport
       ELSE /\ importPc' = "running"
            /\ importQueue' = doc.entries
            /\ importInfo' = [n |-> Len(doc.entries), base |-> StoredCount,
                              fromExport |-> (doc \in Range(exported)), clean |-> TRUE,
                              settings |-> doc.settings,
                              malformed |-> DocMalformed(doc)]
    /\ UNCHANGED <<authVars, db, useSupabase, storageVars, settingsVars, exported, lastOp>>
    /\ UNCHANGED history
    /\ UNCHANGED uiVars

\* one iteration of the loop: await DiaryStorage.createEntry(entry); a
\* rejection leaves the loop for the catch block
importStep ==
    /\ importPc = "running"
    /\ importQueue # <<>>
    /\ createEntryCall(Head(importQueue))
    /\ importQueue' = IF lastOp'.ok THEN Tail(importQueue) ELSE <<>>
    /\ importPc' = IF lastOp'.ok THEN "running" ELSE "failed"
    /\ UNCHANGED <<authVars, db, useSupabase, settingsVars, exported, importInfo>>
    /\ history' = NextHistory(lastOp')
    /\ UNCHANGED uiVars

\* after the loop: take over the document's settings and save them
importFinish ==
    /\ importPc = "running"
    /\ importQueue = <<>>
    /\ importPc' = "done"
    /\ IF importInfo.settings # <<>>
       THEN /\ settings' = MergeRow(defaultSettings, importInfo.settings[1])
            /\ storedSettings' = <<settings'>>
       ELSE UNCHANGED settingsVars
    /\ UNCHANGED <<authVars, db, useSupabase, storageVars, exported, importQueue,
                   importInfo, lastOp>>
    /\ UNCHANGED history
    /\ UNCHANGED uiVars

(* ---- CalendarView ---- *)
\* CalendarView.loadEntries(entries); loadedEntries remembers the array given,
\* gridFresh whether the grid was rendered since
loadEntries(entries) ==
    /\ entriesMap' = BuildEntriesMap(entries)
    /\ loadedEntries' = entries
    /\ gridFresh' = FALSE
    /\ UNCHANGED <<timeZone, currentDate, selectedDate, calendarGrid>>
    /\ UNCHANGED exceptCalendar

\* the grid render writes: one cell per day of the month of date
RenderGrid(date, selected) ==
    [year |-> date.year, month |-> date.month,
     cells |-> [day \in 1..DaysInMonth(date.year, date.month) |->
                  LET dateKey == DateKey(date.year, date.month, day)
                      hasEntries == dateKey \in DOMAIN entriesMap
                  IN [hasEntries |-> hasEntries,
                      entryCount |-> IF hasEntries THEN Len(entriesMap[dateKey]) ELSE 0,
                      isSelected |-> (selected # <<>> /\ selected[1] =
                                        [year |-> date.year, month |-> date.month,
                                         day |-> day])]]]

\* CalendarView.render
render ==
    /\ calendarGrid' = RenderGrid(currentDate, selectedDate)
    /\ gridFresh' = TRUE
    /\ UNCHANGED <<timeZone, currentDate, selectedDate, entriesMap, loadedEntries>>
    /\ UNCHANGED exceptCalendar

\* the prevMonth / nextMonth buttons: setMonth(getMonth() + by), then render
changeMonth(by) ==
    LET date == MakeDate(currentDate.year, currentDate.month + by, currentDate.day)
    IN /\ MonthIndex(date) - MonthIndex([year |-> 2024, month |-> 1]) \in
              (0 - MaxMonthsAway)..MaxMonthsAway
       /\ currentDate' = date
       /\ calendarGrid' = RenderGrid(date, selectedDate)
       /\ gridFresh' = TRUE
       /\ UNCHANGED <<timeZone, selectedDate, entriesMap, loadedEntries>>
       /\ UNCHANGED exceptCalendar

prevMonth == changeMonth(0 - 1)
nextMonth == changeMonth(1)

\* a click on the cell of a day of the rendered month: select it, then render
selectCell(day) ==
    /\ day \in DOMAIN calendarGrid.cells
    /\ selectedDate' = <<MakeDate(calendarGrid.year, calendarGrid.month, day)>>
    /\ calendarGrid' = RenderGrid(currentDate, selectedDate')
    /\ gridFresh' = TRUE
    /\ UNCHANGED <<timeZone, currentDate, entriesMap, loadedEntries>>
    /\ UNCHANGED exceptCalendar

(* ---- QuickLog ---- *)
\* a page load, then QuickLog.init: loadCustomOptions
loadCustomOptions ==
    /\ customOptions' = IF storedOptions # <<>> THEN storedOptions[1] ELSE NoCustomOptions
    /\ quickLast' = QuickCall("loadCustomOptions", "", "", TRUE, customOptions', <<>>)
    /\ UNCHANGED storedOptions
    /\ UNCHANGED exceptQuickLog

\* QuickLog.addCustomOption(type, option); saveCustomOptions stores the lists
addCustomOption(type, option) ==
    LET trimmedOption == Trim(option)
        withList == IF type \in DOMAIN customOptions THEN customOptions
                    ELSE (type :> <<>>) @@ customOptions
        allOptions == GetOptionsOf(withList, type)
        pushed == [withList EXCEPT ![type] = Append(@, trimmedOption)]
    IN /\ IF option = "" \/ trimmedOption = ""
          THEN /\ quickLast' = QuickCall("addCustomOption", type, option, FALSE,
                                         customOptions, allOptions)
               /\ UNCHANGED <<customOptions, storedOptions>>
          ELSE IF Includes(allOptions, trimmedOption)
          THEN /\ customOptions' = withList
               /\ quickLast' = QuickCall("addCustomOption", type, option, FALSE,
                                         withList, allOptions)
               /\ UNCHANGED storedOptions
          ELSE /\ TotalCustom(withList) < MaxCustom
               /\ customOptions' = pushed
               /\ storedOptions' = <<pushed>>
               /\ quickLast' = QuickCall("addCustomOption", type, option, TRUE,
                                         pushed, allOptions)
       /\ UNCHANGED exceptQuickLog

\* QuickLog.removeCustomOption(type, option)
removeCustomOption(type, option) ==
    LET index == IndexOf(CustomOf(customOptions, type), option)
        spliced == [customOptions EXCEPT ![type] = Splice(@, index)]
    IN /\ IF type \notin DOMAIN customOptions \/ index = 0
          THEN /\ quickLast' = QuickCall("removeCustomOption", type, option, FALSE,
                                         customOptions, <<>>)
               /\ UNCHANGED <<customOptions, storedOptions>>
          ELSE /\ customOptions' = spliced
               /\ storedOptions' = <<spliced>>
               /\ quickLast' = QuickCall("removeCustomOption", type, option, TRUE,
                                         spliced, <<>>)
       /\ UNCHANGED exceptQuickLog

(* ---- VoiceRecorder ---- *)
\* App.init: VoiceRecorder.init(onTranscript, onVoiceError) where the browser
\* has the Web Speech API
voiceInit ==
    /\ ~recognition
    /\ recognition' = TRUE
    /\ voiceLast' = [voiceLast EXCEPT !.ev = "init"]
    /\ UNCHANGED <<isRecording, session, restartTimer, voiceBtn, toast>>
    /\ UNCHANGED transcriptVars
    /\ UNCHANGED exceptVoice

\* the voice button: stop() when recording, start() otherwise
toggleVoiceRecording ==
    /\ IF isRecording
       THEN /\ isRecording' = FALSE
            /\ session' = RecognitionStop(session)
            /\ voiceBtn' = FALSE
            /\ voiceLast' = [ev |-> "stop", call |-> "stop", error |-> "",
                             notified |-> FALSE]
       ELSE /\ isRecording' = recognition
            /\ session' = IF recognition THEN RecognitionStart(session) ELSE session
            /\ voiceBtn' = TRUE
            /\ voiceLast' = [ev |-> "start", call |-> "start", error |-> "",
                             notified |-> FALSE]
    /\ lastProcessedIndex' = IF recognition THEN 0 - 1 ELSE lastProcessedIndex
    /\ UNCHANGED <<recognition, restartTimer, toast>>
    /\ UNCHANGED <<results, transcribedText, entryContent, spoken, desired>>
    /\ UNCHANGED exceptVoice

\* recognition.onerror, with onVoiceError as the callback
onerror(error) ==
    /\ session = "listening"
    /\ isRecording' = IF StopsRecording(error) THEN FALSE ELSE isRecording
    /\ IF Notifies(error)
       THEN /\ toast' = <<VoiceErrorToast(CallbackArgument(error))>>
            /\ voiceBtn' = FALSE
       ELSE UNCHANGED <<toast, voiceBtn>>
    /\ session' \in SessionsAfter(error)
    /\ voiceLast' = [voiceLast EXCEPT !.ev = "error", !.error = error,
                                      !.notified = Notifies(error)]
    /\ UNCHANGED <<recognition, restartTimer>>
    /\ UNCHANGED transcriptVars
    /\ UNCHANGED exceptVoice

\* recognition.onresult, with onTranscript as the callback: the engine
\* reports the results that changed, from event.resultIndex on; results that
\* are final do not change again. results holds the session's final results.
onresult(kind) ==
    LET resultIndex == Len(results)
        eventResults == results \o NewResults(kind)
        processed == ProcessResults(eventResults, resultIndex, lastProcessedIndex,
                                    <<>>, <<>>)
        result == TranscriptResult(processed)
    IN /\ session \in {"listening", "ending"}
       /\ kind # "interim" => spoken < MaxSegments
       /\ lastProcessedIndex' = processed.last
       /\ IF result.final = <<>> /\ result.interim = <<>>
          THEN UNCHANGED <<transcribedText, entryContent>>
          ELSE IF result.isFinal
          THEN /\ transcribedText' = transcribedText \o Accumulated(result)
               /\ entryContent' = [text |-> transcribedText', interim |-> <<>>]
          ELSE /\ entryContent' = [text |-> transcribedText, interim |-> result.interim]
               /\ UNCHANGED transcribedText
       /\ IF kind = "interim"
          THEN UNCHANGED <<results, spoken, desired>>
          ELSE /\ results' = Append(results, Result(spoken + 1, TRUE))
               /\ spoken' = spoken + 1
               /\ desired' = IF isRecording THEN desired \cup {spoken + 1} ELSE desired
       /\ voiceLast' = [voiceLast EXCEPT !.ev = "result"]
       /\ UNCHANGED <<recognition, isRecording, session, restartTimer, voiceBtn, toast>>
       /\ UNCHANGED exceptVoice

\* the recognition service disconnects by itself (silence, a time limit)
disconnect ==
    /\ session = "listening"
    /\ session' = "ending"
    /\ voiceLast' = [voiceLast EXCEPT !.ev = "disconnect"]
    /\ UNCHANGED <<recognition, isRecording, restartTimer, voiceBtn, toast>>
    /\ UNCHANGED transcriptVars
    /\ UNCHANGED exceptVoice

\* recognition.onend: the session is over; a restart is set for 100 ms later
\* if still recording (restartTimer: one is pending)
onend ==
    /\ session = "ending"
    /\ session' = "idle"
    /\ restartTimer' = (restartTimer \/ SchedulesRestart(isRecording))
    /\ voiceLast' = [voiceLast EXCEPT !.ev = "end"]
    /\ results' = <<>>
    /\ UNCHANGED <<recognition, isRecording, voiceBtn, toast>>
    /\ UNCHANGED <<lastProcessedIndex, transcribedText, entryContent, spoken, desired>>
    /\ UNCHANGED exceptVoice

\* the timeout set by onend fires
restart ==
    /\ restartTimer
    /\ restartTimer' = FALSE
    /\ session' = IF RestartsWhen(isRecording) THEN RecognitionStart(session)
                   ELSE session
    /\ voiceLast' = [voiceLast EXCEPT !.ev = "restart"]
    /\ UNCHANGED <<recognition, isRecording, voiceBtn, toast>>
    /\ UNCHANGED transcriptVars
    /\ UNCHANGED exceptVoice

(* ---- the application controller (App, EntriesManager) ---- *)
\* the same with the listeners set up before the database is open
InitStepsListenersFirst ==
    <<"initSupabase", "Auth.init", "QuickLog.init", "EntriesManager.init",
      "CalendarView.init", "Settings.init", "VoiceRecorder.init",
      "setupEventListeners", "DiaryStorage.init", "loadData", "ready">>

\* the statements of App.init, in the order of the code
InitSteps ==
    <<"initSupabase", "Auth.init", "DiaryStorage.init", "QuickLog.init",
      "EntriesManager.init", "CalendarView.init", "Settings.init",
      "VoiceRecorder.init", "setupEventListeners", "loadData", "ready">>

\* the elements a step of App.init attaches handlers to
Registers(step) ==
    IF step = "EntriesManager.init" THEN {"typeBtn", "quickLogSelect", "customOption"}
    ELSE IF step = "CalendarView.init" THEN {"prevMonth", "nextMonth"}
    ELSE IF step = "Settings.init" THEN {"darkModeToggle", "exportBtn", "importFile"}
    ELSE IF step = "setupEventListeners" THEN {"navBtn", "entryForm", "voiceBtn"}
    ELSE {}

\* whether the load of loadData is in flight
Loading == \E i \in 1..Len(pending) : pending[i].kind = "loadData"

\* App.init is not running: it is over, or it waits at one of its awaits, so
\* that events and other continuations can run
Suspended ==
    IF initPc \in 1..Len(InitSteps)
    THEN InitSteps[initPc] \in {"Auth.init", "DiaryStorage.init"} \/ Loading
    ELSE TRUE

\* the value of an entry variable that holds undefined
Undefined == [undefined |-> TRUE]

\* a handler suspended at an await: kind is the handler, phase the call it
\* waits for, entry what that call resolves with, local whether the call is
\* served by the local store
Suspend(kind, phase, o) ==
    [kind |-> kind, phase |-> phase, ok |-> o.ok, id |-> o.id,
     entry |-> o.entries, local |-> o.local]

\* requests on the local store complete in the order they were made, the
\* responses of the remote service in any order
CanResume(i) ==
    /\ i \in 1..Len(pending)
    /\ pending[i].local => \A j \in 1..(i - 1) : ~pending[j].local

Without(s, i) == SubSeq(s, 1, i - 1) \o SubSeq(s, i + 1, Len(s))

\* App.onEntriesChange: CalendarView.loadEntries(EntriesManager.getEntries());
\* the view shown is 'entries', so nothing is rendered
onEntriesChange(list) ==
    /\ entriesMap' = BuildEntriesMap(list)
    /\ loadedEntries' = list
    /\ gridFresh' = FALSE
    /\ UNCHANGED <<timeZone, currentDate, selectedDate, calendarGrid>>

\* what an application action leaves alone besides the storage, the calendar,
\* the toast and its own variables
appFrame ==
    /\ UNCHANGED <<supabaseClient, settingsVars, exported, importVars>>
    /\ UNCHANGED quickLogVars
    /\ UNCHANGED <<isRecording, session, restartTimer, voiceBtn, voiceLast>>
    /\ UNCHANGED <<lastProcessedIndex, results, entryContent, spoken, desired>>

\* creation time of an entry of the list: timestamp in the local format,
\* created_at in a row of the remote table
CreationTime(entry) ==
    IF "timestamp" \in DOMAIN entry THEN entry.timestamp
    ELSE GetTime(entry.created_at)

\* App.init up to its next await; the awaited Auth.init and DiaryStorage.init
\* are taken when they complete
initStep ==
    /\ initPc \in 1..Len(InitSteps)
    /\ ~Loading
    /\ LET step == InitSteps[initPc]
       IN /\ listeners' = listeners \cup Registers(step)
          /\ IF step = "Auth.init"
             THEN /\ \E user \in {Null} \cup {"u1"} :
                        currentUser' = IF supabaseClient THEN user ELSE Null
                  /\ initPc' = initPc + 1
                  /\ UNCHANGED <<db, useSupabase, storageVars, lastOp, recognition,
                                 toast, pending>>
             ELSE IF step = "DiaryStorage.init"
             THEN /\ useSupabase' = supabaseClient
                  /\ \E opened \in BOOLEAN :
                        /\ db' = opened
                        /\ lastOp' = Outcome("init", opened, "", <<>>, NoDraft,
                                             FALSE, FALSE, TRUE)
                        /\ initPc' = IF opened THEN initPc + 1 ELSE 0
                        /\ toast' = IF opened THEN toast
                                    ELSE <<"Failed to initialize app">>
                  /\ UNCHANGED <<currentUser, storageVars, recognition, pending>>
             ELSE IF step = "VoiceRecorder.init"
             THEN /\ recognition' = TRUE
                  /\ initPc' = initPc + 1
                  /\ UNCHANGED <<currentUser, db, useSupabase, storageVars, lastOp,
                                 toast, pending>>
             ELSE IF step = "loadData"
             THEN /\ \E o \in getAllEntriesOutcomes :
                        /\ lastOp' = o
                        /\ pending' = Append(pending, Suspend("loadData", "getAllEntries", o))
                  /\ initPc' = initPc + 1
                  /\ UNCHANGED <<currentUser, db, useSupabase, storageVars,
                                 recognition, toast>>
             ELSE IF step = "ready"
             THEN /\ toast' = <<"Chronicle ready!">>
                  /\ initPc' = initPc + 1
                  /\ UNCHANGED <<currentUser, db, useSupabase, storageVars, lastOp,
                                 recognition, pending>>
             ELSE /\ initPc' = initPc + 1
                  /\ UNCHANGED <<currentUser, db, useSupabase, storageVars, lastOp,
                                 recognition, toast, pending>>
    /\ UNCHANGED <<managerEntries, transcribedText, history>>
    /\ UNCHANGED calendarVars
    /\ appFrame

\* the first part of handleSubmit and of handleQuickLogSelection: the draft
\* goes to DiaryStorage.createEntry, and the handler waits for the id
submitDraft(kind, entryData) ==
    /\ Suspended
    /\ Len(pending) < MaxPending
    /\ createEntryCall(entryData)
    /\ history' = NextHistory(lastOp')
    /\ IF lastOp'.ok
       THEN /\ pending' = Append(pending, Suspend(kind, "createEntry", lastOp'))
            /\ UNCHANGED toast
       ELSE /\ toast' = <<IF kind = "handleSubmit" THEN "Failed to save entry"
                          ELSE "Failed to log entry">>
            /\ UNCHANGED pending
    /\ UNCHANGED <<currentUser, db, useSupabase, recognition, initPc, listeners,
                   managerEntries, transcribedText>>
    /\ UNCHANGED calendarVars
    /\ appFrame

\* the submit event of the entry form
handleSubmit(entryData) ==
    /\ "entryForm" \in listeners
    /\ submitDraft("handleSubmit", entryData)

\* the change event of the quick-log dropdown
handleQuickLogSelection(entryData) ==
    /\ "quickLogSelect" \in listeners
    /\ submitDraft("handleQuickLogSelection", entryData)

\* a suspended handler goes on: after createEntry it calls getEntry(id) and
\* waits again; after getEntry it puts the entry at the head of the list and
\* tells the calendar; loadEntries replaces the list by what was loaded
resume(i) ==
    /\ Suspended
    /\ CanResume(i)
    /\ LET task == pending[i]
           rest == Without(pending, i)
           failed == IF task.kind = "handleSubmit" THEN "Failed to save entry"
                     ELSE "Failed to log entry"
       IN IF task.phase = "createEntry"
          THEN /\ \E o \in getEntryOutcomes(task.id) :
                     /\ lastOp' = o
                     /\ IF o.ok
                        THEN /\ pending' = Append(rest, Suspend(task.kind, "getEntry", o))
                             /\ UNCHANGED toast
                        ELSE /\ pending' = rest
                             /\ toast' = <<failed>>
               /\ UNCHANGED <<managerEntries, transcribedText>>
               /\ UNCHANGED calendarVars
          ELSE IF task.phase = "getEntry"
          THEN /\ pending' = rest
               /\ UNCHANGED lastOp
               /\ IF task.entry = NoEntry
                  THEN /\ managerEntries' = <<Undefined>> \o managerEntries
                       /\ toast' = <<failed>>
                       /\ UNCHANGED transcribedText
                       /\ UNCHANGED calendarVars
                  ELSE /\ managerEntries' = task.entry \o managerEntries
                       /\ onEntriesChange(managerEntries')
                       /\ transcribedText' = IF task.kind = "handleSubmit" THEN <<>>
                                             ELSE transcribedText
                       /\ toast' = <<IF task.kind = "handleSubmit" THEN "Entry saved!"
                                     ELSE "logged">>
          ELSE /\ pending' = rest
               /\ UNCHANGED <<lastOp, transcribedText>>
               /\ IF task.ok
                  THEN /\ managerEntries' = task.entry
                       /\ UNCHANGED toast
                  ELSE /\ toast' = <<"Failed to load entries">>
                       /\ UNCHANGED managerEntries
               /\ onEntriesChange(managerEntries')
    /\ UNCHANGED <<currentUser, db, useSupabase, storageVars, history, recognition,
                   initPc, listeners>>
    /\ appFrame

\* the delete button renderEntries puts on the card of the i-th entry, with the
\* question confirmed
clickDelete(i) ==
    /\ Suspended
    /\ i \in 1..Len(managerEntries)
    /\ managerEntries[i] # Undefined
    /\ IF useSupabase THEN deleteEntrySupabase(managerEntries[i].id)
       ELSE deleteEntryIndexedDB(managerEntries[i].id)
    /\ history' = NextHistory(lastOp')
    /\ IF lastOp'.ok /\ Undefined \notin Range(managerEntries)
       THEN /\ managerEntries' =
                 SelectSeq(managerEntries, LAMBDA e : e.id # managerEntries[i].id)
            /\ onEntriesChange(managerEntries')
            /\ toast' = <<"Entry deleted">>
       ELSE /\ toast' = <<"Failed to delete entry">>
            /\ UNCHANGED managerEntries
            /\ UNCHANGED calendarVars
    /\ UNCHANGED <<currentUser, db, useSupabase, recognition, initPc, listeners,
                   pending, transcribedText>>
    /\ appFrame

\* the export button
clickExport ==
    /\ Suspended
    /\ "exportBtn" \in listeners
    /\ exportData

(* ---- specifications ---- *)
\* the persistence shim and the authentication shim, with one account that
\* signs in and out
Next ==
    \/ Tick
    \/ InitStorage
    \/ SignIn("u1")
    \/ SignOut
    \/ \E d \in ApiDrafts : createEntry(d)
    \/ getAllEntries
    \/ \E id \in AllIds : getEntry(id)
    \/ \E r \in RangeInputs : getEntriesByDateRange(r[1], r[2])
    \/ \E t \in FormTypes : getEntriesByType(t)
    \/ \E id \in AllIds, u \in Updates : updateEntry(id, u)
    \/ \E id \in AllIds : deleteEntry(id)
    \/ clearAll

Spec == Init /\ [][Next]_vars

\* the entry form, the quick log and the export / import of Settings
NextImport ==
    \/ Tick
    \/ InitStorage
    \/ \E d \in FormDrafts \cup QuickLogDrafts : createEntry(d)
    \/ clearAll
    \/ toggleDarkMode
    \/ exportData
    \/ \E doc \in ImportDocs, confirmed \in BOOLEAN : importData(doc, confirmed)
    \/ importStep
    \/ importFinish

SpecImport == Init /\ [][NextImport]_vars

\* two users taking turns on the same browser: sign in, create, read, sign out
NextUsers ==
    \/ InitStorage
    \/ \E u \in Users : SignIn(u)
    \/ SignOut
    \/ \E d \in FormDrafts : createEntry(d)
    \/ getAllEntries
    \/ \E id \in AllIds : getEntry(id)

\* export and import with an account signed in, so that the import's creates
\* reach the remote table as well as the local store
NextImportUser ==
    \/ Tick
    \/ InitStorage
    \/ SignIn("u1")
    \/ \E d \in FormDrafts : createEntry(d)
    \/ exportData
    \/ \E doc \in ImportDocs : importData(doc, TRUE)
    \/ importStep
    \/ importFinish

SpecImportUser == Init /\ [][NextImportUser]_vars

SpecUsers == Init /\ [][NextUsers]_vars

\* the calendar: entries are loaded, months are turned, days are selected
NextCalendar ==
    \/ \E entries \in SeqsUpTo(CalendarEntries, MaxLoaded) : loadEntries(entries)
    \/ render
    \/ prevMonth
    \/ nextMonth
    \/ selectCell(29)

SpecCalendar == InitCalendar /\ [][NextCalendar]_vars

\* the persistence shim across page loads: calls may arrive before
\* DiaryStorage.init has run or after it failed to open the database
NextUninit ==
    \/ Tick
    \/ InitStorage
    \/ Reload
    \/ \E d \in FormDrafts : createEntry(d)
    \/ getAllEntries
    \/ \E id \in AllIds : getEntry(id)
    \/ \E r \in RangeInputs : getEntriesByDateRange(r[1], r[2])
    \/ \E t \in FormTypes : getEntriesByType(t)
    \/ \E id \in AllIds, u \in Updates : updateEntry(id, u)
    \/ \E id \in AllIds : deleteEntry(id)
    \/ clearAll

SpecUninit == Init /\ [][NextUninit]_vars

\* the quick-log catalog on its own
NextQuickLog ==
    \/ loadCustomOptions
    \/ \E t \in OptionTypes, o \in OptionInputs : addCustomOption(t, o)
    \/ \E t \in OptionTypes, o \in OptionInputs : removeCustomOption(t, o)

SpecQuickLog == Init /\ [][NextQuickLog]_vars

\* voice capture on its own
NextVoice ==
    \/ voiceInit
    \/ toggleVoiceRecording
    \/ \E error \in SpeechErrors : onerror(error)
    \/ disconnect
    \/ onend
    \/ restart

SpecVoice == Init /\ [][NextVoice]_vars

\* voice capture with the results the engine reports
NextTranscript ==
    \/ voiceInit
    \/ toggleVoiceRecording
    \/ \E kind \in ResultKinds : onresult(kind)
    \/ \E error \in {"no-speech", "not-allowed"} : onerror(error)
    \/ disconnect
    \/ onend
    \/ restart

SpecTranscript == Init /\ [][NextTranscript]_vars

\* the same where the browser does deliver the end event of a session that
\* is ending and does fire a timeout that was set
SpecVoiceLive == SpecVoice /\ WF_vars(onend) /\ WF_vars(restart)

\* the page from its load on: App.init, then the entry form, the quick-log
\* dropdown, the delete buttons and the export button
NextApp ==
    \/ Tick
    \/ initStep
    \/ \E d \in FormDrafts : handleSubmit(d)
    \/ \E d \in QuickLogDrafts : handleQuickLogSelection(d)
    \/ \E i \in 1..MaxPending : resume(i)
    \/ \E i \in 1..MaxEntries : clickDelete(i)
    \/ clickExport

SpecApp == Init /\ [][NextApp]_vars

(* ---- properties ---- *)
ShimOps == {"createEntry", "getAllEntries", "getEntry", "getEntriesByDateRange",
            "getEntriesByType", "updateEntry", "deleteEntry", "clearAll"}

\* the tags a draft asks for: its own, or none when it omits them
ExpectedTags(draft) == IF "tags" \in DOMAIN draft THEN draft.tags ELSE <<>>

\* the call returned exactly one entry, with the draft's type, content and tags
ReturnsDraft(o) ==
    /\ o.ok
    /\ Len(o.entries) = 1
    /\ o.entries[1].id = o.id
    /\ o.entries[1].type = o.draft.type
    /\ o.entries[1].content = o.draft.content
    /\ o.entries[1].tags = ExpectedTags(o.draft)

\* C1 as stated: in every storage mode (the local store being initialised), a
\* getEntry that directly follows the createEntry that returned its id yields
\* an entry with the draft's type, content and tags (no tags when the draft
\* omits them).
C1_RoundTripEveryMode ==
    (lastOp.op = "getEntry" /\ lastOp.afterCreate /\ db) => ReturnsDraft(lastOp)

\* C1 amended: the round trip holds whenever the entry was written to the local
\* store, and, when it was written to the remote table, whenever the remote
\* lookup of getEntry does not return an error.
C1_RoundTrip ==
    (lastOp.op = "getEntry" /\ lastOp.afterCreate
        /\ (lastOp.createdLocal \/ ~lastOp.remoteFailed))
    => ReturnsDraft(lastOp)

\* C1 witness: remote configured, nobody signed in, a draft without tags was
\* created by the fallback and read back through getEntry's fallback.
C1_Witness ==
    /\ lastOp.op = "getEntry" /\ lastOp.afterCreate /\ lastOp.createdLocal
    /\ lastOp.noSession /\ lastOp.remoteFailed
    /\ "tags" \notin DOMAIN lastOp.draft
    /\ Len(lastOp.entries) = 1 /\ lastOp.entries[1].tags = <<>>

\* C2: once deleteEntry(id) has resolved for a stored entry, no later
\* getAllEntries or getEntry returns an entry with that id (until a createEntry
\* hands the id out again).
C2_DeletedStaysDeleted ==
    (lastOp.op \in {"getAllEntries", "getEntry"} /\ history.deleted # "")
    => \A i \in 1..Len(lastOp.entries) : lastOp.entries[i].id # history.deleted

\* C3: every operation of the shim, when the remote is configured, the local
\* store is initialised and either nobody is signed in or the remote request
\* errors, executes the local-store operation instead.
C3_EveryOpFallsBack ==
    (lastOp.op \in ShimOps /\ db /\ (lastOp.noSession \/ lastOp.remoteFailed))
    => lastOp.local

\* C4: with a user signed in, an initialised local store and a remote insert
\* that errors, createEntry resolves with an id and the local store holds an
\* entry with that id and the draft's type, content and tags.
C4_FallbackCreateResolves ==
    (lastOp.op = "createEntry" /\ lastOp.remoteFailed /\ db)
    => /\ lastOp.ok
       /\ \E e \in localStore :
             /\ e.id = lastOp.id
             /\ e.type = lastOp.draft.type
             /\ e.content = lastOp.draft.content
             /\ e.tags = ExpectedTags(lastOp.draft)

\* C5: an entry that createEntry wrote to the local store after a remote error
\* is returned by the getAllEntries that follows, whether the remote answers
\* that call or not.
C5_DowngradedEntryListed ==
    [][(/\ lastOp.op = "createEntry" /\ lastOp.ok /\ lastOp.local /\ lastOp.remoteFailed
        /\ lastOp'.op = "getAllEntries" /\ lastOp'.ok)
       => \E i \in 1..Len(lastOp'.entries) : lastOp'.entries[i].id = lastOp.id]_vars

\* C6: when the import of an exported document of n entries into empty stores
\* has ended, the stores hold exactly n entries.
C6_ImportReproducesCount ==
    (importPc \in {"done", "failed"} /\ importInfo.fromExport /\ importInfo.base = 0
        /\ importInfo.clean)
    => StoredCount = importInfo.n

\* C7: getAllEntries returns the entries in non-increasing timestamp order,
\* whichever backend answered.
C7_ListedNewestFirst ==
    (lastOp.op = "getAllEntries" /\ lastOp.ok)
    => \A i, j \in 1..Len(lastOp.entries) :
          i < j => lastOp.entries[i].timestamp >= lastOp.entries[j].timestamp

\* C7 witness: the local store answered with two entries of different
\* timestamps.
C7_Witness ==
    /\ lastOp.op = "getAllEntries" /\ lastOp.ok /\ lastOp.local
    /\ Len(lastOp.entries) = 2
    /\ lastOp.entries[1].timestamp > lastOp.entries[2].timestamp

\* C8 as stated: deleteEntry of an id that is not stored is rejected (the
\* local store being initialised).
C8_DeleteMissingRejected ==
    (lastOp.op = "deleteEntry" /\ ~lastOp.present /\ db) => ~lastOp.ok

\* C8 amended: deleteEntry of an id that is not stored changes neither store,
\* and an initialised local store resolves the call instead of rejecting it.
C8_DeleteMissingHarmless ==
    [][(lastOp'.op = "deleteEntry" /\ ~lastOp'.present)
       => /\ localStore' = localStore
          /\ remoteRows' = remoteRows
          /\ (lastOp'.local /\ db' => lastOp'.ok)]_vars

\* C8 witness: a local-store delete of a missing id resolved while the store
\* held an entry.
C8_Witness ==
    /\ lastOp.op = "deleteEntry" /\ ~lastOp.present /\ lastOp.local /\ lastOp.ok
    /\ localStore # {}

\* C9: no two entries of the local store share an id, and createEntry removes
\* or replaces no stored entry.
UniqueIds == \A e1, e2 \in localStore : e1.id = e2.id => e1 = e2

C9_UniqueIds ==
    /\ []UniqueIds
    /\ [][lastOp'.op = "createEntry" => localStore \subseteq localStore']_vars

\* C9 witness: createEntry derived an id that the store already held, and was
\* rejected.
C9_Witness ==
    /\ lastOp.op = "createEntry" /\ ~lastOp.ok /\ lastOp.present /\ db
    /\ localStore # {}

\* C10: every entry of the local store has one of the five types.
C10_TypesInFixedSet == \A e \in localStore : e.type \in EntryTypes

\* C11: while a user is signed in, no read returns an entry that a createEntry
\* stored while a different user was signed in, whether that create wrote to the
\* remote table or, through the fallback, to the local store.
ReadOps == {"getAllEntries", "getEntry", "getEntriesByDateRange", "getEntriesByType"}

OwnersOf(id) ==
    {r.user : r \in {o \in history.owners : o.id = id}}
        \cup {r.user_id : r \in {x \in remoteRows : x.id = id}}

C11_NoCrossUserEntries ==
    (lastOp.op \in ReadOps /\ lastOp.ok /\ currentUser # Null)
    => \A i \in 1..Len(lastOp.entries) :
          OwnersOf(lastOp.entries[i].id) \subseteq {currentUser}

\* C12: an import of a file that is not valid JSON, or of a document without an
\* entries array, ends as failed with nothing queued for createEntry, and the
\* step that rejects it changes neither store, nor the settings, nor the
\* stored settings.
MalformedRejected ==
    importInfo.malformed => importPc = "failed" /\ importQueue = <<>>

C12_MalformedImportWritesNothing ==
    /\ []MalformedRejected
    /\ [][(importInfo'.malformed /\ ~importInfo.malformed)
          => /\ localStore' = localStore /\ remoteRows' = remoteRows
             /\ settings' = settings /\ storedSettings' = storedSettings
             /\ lastOp' = lastOp]_vars

\* C12 witness: a malformed document was rejected while the store held an entry
\* and settings had been saved.
C12_Witness ==
    /\ importInfo.malformed /\ importPc = "failed"
    /\ localStore # {} /\ storedSettings # <<>>

\* C13: a local-store operation executed while there is no database handle is
\* rejected, and the step leaves the object store and the remote table as they
\* were.
UninitRejected ==
    (lastOp.op \in ShimOps /\ lastOp.local /\ ~db) => ~lastOp.ok

C13_UninitialisedRejected ==
    /\ []UninitRejected
    /\ [][(lastOp'.op \in ShimOps /\ lastOp'.local /\ ~db')
          => /\ localStore' = localStore /\ remoteRows' = remoteRows
             /\ nextUuid' = nextUuid]_vars

\* C13 witness: after a page load, before the database was opened again, an
\* update of a stored entry was rejected.
C13_Witness ==
    /\ lastOp.op = "updateEntry" /\ lastOp.local /\ ~db /\ ~lastOp.ok
    /\ HasKey(localStore, lastOp.id)

\* C14: every entry an import stores gets its id, timestamp and date from the
\* create path at the time of the import (the local store: the clock readings
\* of that create; the remote table: the next generated id and the time of the
\* insert), whatever id, timestamp and date the document records for it.
ImportStored ==
    /\ importPc = "running" /\ importQueue # <<>>
    /\ importPc' = "running" /\ importQueue' = Tail(importQueue)

C14_ImportAssignsFresh ==
    [][ImportStored
       => \/ /\ remoteRows' = remoteRows
             /\ \E e \in localStore' :
                   /\ e \notin localStore /\ localStore' = localStore \cup {e}
                   /\ e.id = IdOf(clock)
                   /\ clock <= e.timestamp /\ e.timestamp <= clock'
                   /\ e.date = ToISOString(clock')
          \/ /\ localStore' = localStore
             /\ \E r \in remoteRows' :
                   /\ r \notin remoteRows /\ remoteRows' = remoteRows \cup {r}
                   /\ r.id = Uuid(nextUuid)
                   /\ r.created_at = ToISOString(clock)]_vars

\* C14 witness: an import stored, in the local store, an entry whose document
\* records another id, timestamp and date.
C14_Witness ==
    /\ importPc = "running" /\ lastOp.op = "createEntry" /\ lastOp.ok
    /\ "id" \in DOMAIN lastOp.draft /\ lastOp.draft.id # lastOp.id
    /\ \E e \in localStore :
          /\ e.id = lastOp.id
          /\ e.timestamp # lastOp.draft.timestamp
          /\ e.date # lastOp.draft.date

\* C15: in the rendered grid a day cell is marked exactly when at least one of
\* the loaded entries has that day of the rendered month and year as its local
\* date, and its indicator is the number of those entries; entries dated in
\* other months, and entries without a date, mark no cell.
DatedOn(entry, y, m, d) ==
    /\ "date" \in DOMAIN entry
    /\ LocalFields(GetTime(entry.date)) = [year |-> y, month |-> m, day |-> d]

CountOn(entries, y, m, d) ==
    Cardinality({i \in 1..Len(entries) : DatedOn(entries[i], y, m, d)})

C15_CalendarMarks ==
    gridFresh
    => /\ DOMAIN calendarGrid.cells = 1..DaysInMonth(calendarGrid.year, calendarGrid.month)
       /\ \A day \in DOMAIN calendarGrid.cells :
             LET n == CountOn(loadedEntries, calendarGrid.year, calendarGrid.month, day)
             IN /\ calendarGrid.cells[day].hasEntries = (n > 0)
                /\ calendarGrid.cells[day].entryCount = n

\* C15 witness: 12 hours behind UTC, February 2024 is rendered with the entries
\* of 2024-03-01T00:00Z (twice) and 2024-01-31T12:00Z loaded: the 29th shows 2.
C15_Witness ==
    /\ timeZone = 0 - 1 /\ gridFresh
    /\ calendarGrid.year = 2024 /\ calendarGrid.month = 1
    /\ Len(loadedEntries) = 2
    /\ calendarGrid.cells[29].entryCount = 2
    /\ \A day \in 1..28 : ~calendarGrid.cells[day].hasEntries

Ascending(list) == \A i \in 1..(Len(list) - 1) : StringLess(list[i], list[i + 1])

\* C17: for each of habit, food and health, whatever calls were made,
\* getOptions returns the built-in options and the user-added ones, all of
\* them and nothing else, each once, in sorted order
C17_OptionsAreSortedUnion ==
    \A t \in QuickLogTypes :
        LET options == getOptions(t)
        IN /\ Range(options) = Range(defaultOptions[t]) \cup Range(customOptions[t])
           /\ Ascending(options)

\* two options were added to a category, the later one sorting first
C17_Witness ==
    \E t \in QuickLogTypes :
        /\ Len(customOptions[t]) = 2
        /\ StringLess(customOptions[t][2], customOptions[t][1])

\* C18: every built-in option stays in getOptions; removeCustomOption of a
\* built-in option returns false; addCustomOption of a string that is in the
\* merged list returns false and changes no list
C18_OnlyCustomListChanges ==
    /\ \A t \in QuickLogTypes :
          LET options == getOptions(t)
          IN \A option \in Range(defaultOptions[t]) : Includes(options, option)
    /\ (quickLast.op = "removeCustomOption" /\ quickLast.type \in QuickLogTypes
          /\ Includes(defaultOptions[quickLast.type], quickLast.option))
       => (~quickLast.result /\ ~quickLast.changed)
    /\ (quickLast.op = "addCustomOption" /\ quickLast.listed)
       => (~quickLast.result /\ ~quickLast.changed)

\* a built-in habit was offered for removal, with a user-added habit present
C18_Witness ==
    /\ quickLast.op = "removeCustomOption" /\ quickLast.type = "habit"
    /\ quickLast.option = "Exercise"
    /\ customOptions["habit"] # <<>>

\* C19: after a 'not-allowed' or 'audio-capture' error, and until the button
\* starts the recorder again, the recording flag is false, the error callback
\* has been called, and no session is listening
C19_FatalErrorStopsRecording ==
    voiceLast.error \in {"not-allowed", "audio-capture"}
    => (~isRecording /\ voiceLast.notified /\ toast # <<>> /\ ~voiceBtn
          /\ session # "listening")

\* a restart that was pending when the error came has fired
C19_Witness ==
    /\ voiceLast.error \in {"not-allowed", "audio-capture"}
    /\ voiceLast.ev = "restart"

\* C20: after a 'no-speech' error the recording flag is still true, the error
\* callback was not called, and the session is listening, or ending with the
\* restart to follow, or its restart is pending
C20_NoSpeechIgnored ==
    voiceLast.error = "no-speech"
    => /\ isRecording /\ ~voiceLast.notified
       /\ (session = "listening" \/ session = "ending" \/ restartTimer)

\* the session ended on 'no-speech' and was started again
C20_Witness ==
    /\ voiceLast.error = "no-speech"
    /\ voiceLast.ev = "restart"
    /\ session = "listening"

\* C21: whenever the session has ended with the recording flag true, a
\* session is listening again later, unless the recording is stopped first;
\* nothing counts the restarts
C21_EndedSessionRestarts ==
    (session = "idle" /\ isRecording) ~> (session = "listening" \/ ~isRecording)

\* the service disconnected by itself and the timeout started a new session
C21_Witness ==
    /\ voiceLast.ev = "restart" /\ voiceLast.error = "" /\ voiceLast.call = "start"
    /\ session = "listening" /\ isRecording

\* C30: after stop() and until the button calls start(), no session is
\* listening, whatever end event or restart timeout comes after the stop
C30_StoppedStaysStopped ==
    voiceLast.call = "stop" => (~isRecording /\ session # "listening")

\* a timeout that was set before the stop has fired after it
C30_Witness ==
    /\ voiceLast.call = "stop" /\ voiceLast.ev = "restart"
    /\ session = "idle" /\ ~restartTimer

\* C22: the running transcript holds segments that were final when they were
\* added, each at most once; an interim segment is in the preview only
C22_TranscriptOnlyNewFinals ==
    /\ \A i \in 1..Len(transcribedText) : transcribedText[i] <= spoken
    /\ \A i, j \in 1..Len(transcribedText) :
          transcribedText[i] = transcribedText[j] => i = j
    /\ \A segment \in Range(entryContent.interim) : segment \notin Range(transcribedText)

\* a segment was reported as final and added to the transcript, with nothing
\* left in the preview
C22_Witness ==
    /\ transcribedText = <<1>>
    /\ entryContent = [text |-> <<1>>, interim |-> <<>>]
    /\ voiceLast.ev = "result" /\ spoken = 1 /\ isRecording

\* C23: every segment that the engine finalized while the recording flag was
\* true is in the running transcript
C23_EveryFinalDelivered == \A segment \in desired : segment \in Range(transcribedText)

\* C27: with no user signed in, createEntry and getAllEntries issue no remote
\* request and run on the local store
C27_SignedOutUsesLocalStore ==
    (lastOp.op \in {"createEntry", "getAllEntries"} /\ currentUser = Null)
    => (~lastOp.remoteTried /\ lastOp.local)

\* a user created an entry remotely and signed out; the create that followed
\* went to the local store
C27_Witness ==
    /\ lastOp.op = "createEntry" /\ lastOp.ok /\ lastOp.noSession /\ lastOp.local
    /\ currentUser = Null /\ remoteRows # {}

\* C24: when a createEntry on the opened local store directly follows another
\* that resolved, with nothing in between (the clock may not have moved), it
\* resolves too, with another id, and the store holds an entry under each id
C24_InterleavedCreatesBothStored ==
    [][(lastOp.op = "createEntry" /\ lastOp.ok /\ lastOp.local
          /\ lastOp'.op = "createEntry" /\ lastOp'.local /\ db
          /\ (lastOp' # lastOp \/ localStore' # localStore))
       => /\ lastOp'.ok
          /\ lastOp'.id # lastOp.id
          /\ HasKey(localStore', lastOp.id) /\ HasKey(localStore', lastOp'.id)]_vars

\* C29: a click on nextMonth moves the month of currentDate, which the click
\* renders, forward by exactly one month and a click on prevMonth moves it back
\* by exactly one, whatever the day of the month of currentDate is; hence next
\* followed by previous shows the month displayed before
C29_MonthStepsByOne ==
    [][/\ nextMonth => /\ MonthIndex(currentDate') = MonthIndex(currentDate) + 1
                        /\ MonthIndex(calendarGrid') = MonthIndex(currentDate')
       /\ prevMonth => /\ MonthIndex(currentDate') = MonthIndex(currentDate) - 1
                        /\ MonthIndex(calendarGrid') = MonthIndex(currentDate')]_vars

\* the calls of DiaryStorage that read or write entries
StorageOps == {"createEntry", "getEntry", "getAllEntries", "deleteEntry"}

\* C28: while App.init runs and after it, a storage operation has been issued,
\* a handler is attached or a call is awaited only if DiaryStorage.init has
\* resolved (the database is open); when DiaryStorage.init is rejected, no
\* handler is attached, nothing is loaded and no storage operation was issued
C28_NoStorageBeforeInit ==
    /\ (lastOp.op \in StorageOps \/ listeners # {} \/ pending # <<>>) => db
    /\ initPc = 0 => /\ listeners = {}
                     /\ pending = <<>>
                     /\ managerEntries = <<>>
                     /\ lastOp.op \notin StorageOps

\* the form was submitted after App.init had attached its handler, and the
\* entry was created
C28_Witness ==
    /\ "entryForm" \in listeners
    /\ lastOp.op = "createEntry" /\ lastOp.ok
    /\ db

\* C26: every entry a form submit or a quick-log selection has put in the list
\* has a date, whether it was stored remotely or locally, and the calendar has
\* filed no entry under the key of an invalid date
C26_AddedEntriesHaveDate ==
    /\ \A i \in 1..Len(managerEntries) :
          managerEntries[i] # Undefined => "date" \in DOMAIN managerEntries[i]
    /\ "NaN-NaN-NaN" \notin DOMAIN entriesMap

\* C25: the entries of the list are in descending order of creation time,
\* whatever the order the suspended handlers resume in
C25_ListNewestFirst ==
    \A i, j \in 1..Len(managerEntries) :
       (i < j /\ managerEntries[i] # Undefined /\ managerEntries[j] # Undefined)
          => CreationTime(managerEntries[i]) >= CreationTime(managerEntries[j])

====
